---- MODULE Spec2Model ----
(***************************************************************************)
(* Credential schema attribute model and validator of                      *)
(* src/internal/api_admin/server.go (schema parsers, lines 490-854,        *)
(* JSON-LD type parsers, lines 856-1033, and attribute value parsers,      *)
(* lines 1035-1430), and the handlers GetSchema (lines 56-67) and          *)
(* CreateCredential (lines 297-321).                                       *)
(*                                                                         *)
(* A zod parse is modelled by its result:                                  *)
(*   [status |-> "ok", data |-> d]        the parsed output                *)
(*   [status |-> "fail", issues |-> is]   an invalid result: what          *)
(*                                        safeParse returns as             *)
(*                                        {success: false}                 *)
(*   [status |-> "throw", issues |-> is]  a ZodError thrown by .parse; a   *)
(*                                        throw inside a transform is not  *)
(*                                        caught by the enclosing parser   *)
(* Untyped documents are tagged records (field k is the runtime shape).    *)
(*                                                                         *)
(* getStrictParser (src/adapters/parsers) constrains the static types of   *)
(* a parser and hands back the parser it is given, so it has no            *)
(* counterpart here.  Of the descriptive keys, title stands for            *)
(* description and format as well: each is an optional string that is      *)
(* copied into the schema.                                                 *)
(***************************************************************************)
EXTENDS Integers, Sequences, FiniteSets, TLC

VARIABLES engine, required, schemaDoc, attribute, unknown, value, pc,
          ldContext, jsonLdTypes, request, claim, byID, response

vars == <<engine, required, schemaDoc, attribute, unknown, value, pc,
          ldContext, jsonLdTypes, request, claim, byID, response>>

----------------------------------------------------------------------------
(* Bounds of the checked inputs *)

MaxProps == 2
MaxTypes == 2
MaxKeys == 2
MaxElems == 2

----------------------------------------------------------------------------
(* Untyped documents *)

Undefined == [k |-> "undefined"]
Null == [k |-> "null"]
Bool(b) == [k |-> "boolean", b |-> b]
\* a number is held in tenths: 5 is Num(50), 5.5 is Num(55)
Num(t) == [k |-> "number", tenths |-> t]
Str(s) == [k |-> "string", s |-> s]
Arr(es) == [k |-> "array", elems |-> es]
\* an object value: its entries in Object.entries order
Obj(es) == [k |-> "object", entries |-> es]
Entry(key, v) == [key |-> key, val |-> v]

\* JavaScript truthiness of a document
Truthy(d) ==
  CASE d.k = "undefined" -> FALSE
    [] d.k = "null" -> FALSE
    [] d.k = "boolean" -> d.b
    [] d.k = "number" -> d.tenths # 0
    [] d.k = "string" -> d.s # ""
    [] OTHER -> TRUE

\* the type field of a schema document
TypeLit(t) == Str(t)
TypeArr(ts) == Arr([i \in 1..Len(ts) |-> Str(ts[i])])

\* an object-shaped schema document with the keys the parsers read; a key
\* that is absent reads as Undefined
SchemaDoc(type, title, enum, items, properties, req) ==
  [k |-> "schema", type |-> type, title |-> title, enum |-> enum,
   items |-> items, properties |-> properties, required |-> req]

\* a properties map: its entries in Object.entries order
Record(es) == [k |-> "record", entries |-> es]
Prop(n, d) == [name |-> n, doc |-> d]

----------------------------------------------------------------------------
(* zod results *)

Ok(d) == [status |-> "ok", data |-> d]
Fail(is) == [status |-> "fail", issues |-> is]
Throw(is) == [status |-> "throw", issues |-> is]

Issue(kind, key) == [kind |-> kind, key |-> key]

\* parser.parse(x): an invalid result is thrown as a ZodError
parse(r) == IF r.status = "fail" THEN Throw(r.issues) ELSE r

\* parser.safeParse(x): an invalid result is returned; a throw inside a
\* transform still propagates
safeParse(r) == r

\* z.union([...]): the options are run in order, the first valid result is
\* returned; a throw in an option's transform propagates
RECURSIVE zUnion(_)
zUnion(rs) ==
  IF rs = <<>> THEN Fail(<<Issue("InvalidSchema", "")>>)
  ELSE IF Head(rs).status = "fail" THEN zUnion(Tail(rs))
  ELSE Head(rs)

----------------------------------------------------------------------------
(* Schema parsers (server.go 490-850) *)

TypeLiterals == {"boolean", "integer", "null", "number", "string", "array", "object"}

RECURSIVE AllOfKind(_, _)
AllOfKind(es, kind) ==
  es = <<>> \/ (Head(es).k = kind /\ AllOfKind(Tail(es), kind))

\* z.<kind>().array().min(1).optional()
enumParser(enum, kind) ==
  enum = Undefined \/ (enum.k = "array" /\ Len(enum.elems) >= 1 /\ AllOfKind(enum.elems, kind))

\* z.object({description, title}): the document is an object and title, if
\* present, is a string
commonPropsParser(doc) ==
  doc.k = "schema" /\ (doc.title = Undefined \/ doc.title.k = "string")

booleanPropsParser(doc) == doc.k = "schema" /\ enumParser(doc.enum, "boolean")
integerPropsParser(doc) == doc.k = "schema" /\ enumParser(doc.enum, "number")
numberPropsParser(doc) == doc.k = "schema" /\ enumParser(doc.enum, "number")
stringPropsParser(doc) == doc.k = "schema" /\ enumParser(doc.enum, "string")

\* z.object({ type: z.literal(t) })
typeLiteralParser(doc, t) == doc.k = "schema" /\ doc.type = TypeLit(t)

\* the output of a primitive schema parser: unknown keys are stripped
PrimitiveSchema(doc, t) == [type |-> t, title |-> doc.title, enum |-> doc.enum]

booleanSchemaParser(doc) ==
  IF commonPropsParser(doc) /\ booleanPropsParser(doc) /\ typeLiteralParser(doc, "boolean")
  THEN Ok(PrimitiveSchema(doc, "boolean"))
  ELSE Fail(<<Issue("InvalidSchema", "")>>)

integerSchemaParser(doc) ==
  IF commonPropsParser(doc) /\ integerPropsParser(doc) /\ typeLiteralParser(doc, "integer")
  THEN Ok(PrimitiveSchema(doc, "integer"))
  ELSE Fail(<<Issue("InvalidSchema", "")>>)

nullSchemaParser(doc) ==
  IF commonPropsParser(doc) /\ typeLiteralParser(doc, "null")
  THEN Ok([type |-> "null", title |-> doc.title])
  ELSE Fail(<<Issue("InvalidSchema", "")>>)

numberSchemaParser(doc) ==
  IF commonPropsParser(doc) /\ numberPropsParser(doc) /\ typeLiteralParser(doc, "number")
  THEN Ok(PrimitiveSchema(doc, "number"))
  ELSE Fail(<<Issue("InvalidSchema", "")>>)

stringSchemaParser(doc) ==
  IF commonPropsParser(doc) /\ stringPropsParser(doc) /\ typeLiteralParser(doc, "string")
  THEN Ok(PrimitiveSchema(doc, "string"))
  ELSE Fail(<<Issue("InvalidSchema", "")>>)

\* schemaParser.transform(schema => ({name, required, schema, type}))
Attribute(n, req, schema, t) == [name |-> n, required |-> req, schema |-> schema, type |-> t]

toAttribute(n, req, r, t) ==
  IF r.status = "ok" THEN Ok(Attribute(n, req, r.data, t)) ELSE r

getBooleanAttributeParser(n, req, doc) == toAttribute(n, req, booleanSchemaParser(doc), "boolean")
getIntegerAttributeParser(n, req, doc) == toAttribute(n, req, integerSchemaParser(doc), "integer")
getNullAttributeParser(n, req, doc) == toAttribute(n, req, nullSchemaParser(doc), "null")
getNumberAttributeParser(n, req, doc) == toAttribute(n, req, numberSchemaParser(doc), "number")
getStringAttributeParser(n, req, doc) == toAttribute(n, req, stringSchemaParser(doc), "string")

\* z.object({ items: z.unknown().optional() })
arrayPropsInputParser(doc) == doc.k = "schema"

arraySchemaInputParser(doc) ==
  commonPropsParser(doc) /\ arrayPropsInputParser(doc) /\ typeLiteralParser(doc, "array")

\* z.object({ properties: z.record(z.unknown()).optional(),
\*            required: z.string().array().optional() })
objectPropsInputParser(doc) ==
  /\ doc.k = "schema"
  /\ (doc.properties = Undefined \/ doc.properties.k = "record")
  /\ (doc.required = Undefined
      \/ (doc.required.k = "array" /\ AllOfKind(doc.required.elems, "string")))

objectSchemaInputParser(doc) ==
  commonPropsParser(doc) /\ objectPropsInputParser(doc) /\ typeLiteralParser(doc, "object")

\* schema.required !== undefined && schema.required.includes(name)
requiredIncludes(req, n) ==
  req # Undefined /\ \E i \in 1..Len(req.elems) : req.elems[i] = Str(n)

\* the comparator given to Array.prototype.sort (server.go 707-709, 1244-1246)
compareFn(a, b) ==
  IF a.type # "object" /\ b.type # "object" THEN 0
  ELSE IF a.type = "object" THEN 1 ELSE -1

\* Array.prototype.sort(compareFn).  compareFn answers 1 for two objects in
\* either argument order, so it is not a consistent comparator and ECMAScript
\* leaves the resulting order to the implementation.  The engines' insertion
\* sorts differ in the argument order of the call: comparefn(later, earlier)
\* (binary insertion of V8's TimSort) or comparefn(earlier, later)
\* (SpiderMonkey's insertion sort, V8's before TimSort); engine says which
\* one runs the code.  Both agree wherever the comparator is consistent.
Engines == {"later_first", "earlier_first"}

goesBefore(x, earlier) ==
  IF engine = "later_first" THEN compareFn(x, earlier) < 0
  ELSE compareFn(earlier, x) > 0

RECURSIVE insert(_, _)
insert(sorted, x) ==
  IF sorted = <<>> THEN <<x>>
  ELSE LET last == sorted[Len(sorted)] IN
       IF goesBefore(x, last)
       THEN Append(insert(SubSeq(sorted, 1, Len(sorted) - 1), x), last)
       ELSE Append(sorted, x)

RECURSIVE sortFrom(_, _)
sortFrom(sorted, rest) ==
  IF rest = <<>> THEN sorted ELSE sortFrom(insert(sorted, Head(rest)), Tail(rest))

sort(xs) == sortFrom(<<>>, xs)

RECURSIVE getAttributeParser(_, _, _)
RECURSIVE parseProperties(_, _, _)
RECURSIVE parseMultiSchemas(_, _, _, _, _)

\* items: schema.items ? getAttributeParser("items", required).parse(schema.items)
\*                     : undefined
getArrayAttributeParser(n, req, doc) ==
  IF ~arraySchemaInputParser(doc) THEN Fail(<<Issue("InvalidSchema", "")>>)
  ELSE IF ~Truthy(doc.items)
  THEN Ok(Attribute(n, req, [type |-> "array", title |-> doc.title, items |-> Undefined], "array"))
  ELSE LET r == parse(getAttributeParser("items", req, doc.items)) IN
       IF r.status = "ok"
       THEN Ok(Attribute(n, req, [type |-> "array", title |-> doc.title, items |-> r.data], "array"))
       ELSE r

\* Object.entries(schema.properties).map(([name, value]) =>
\*   getAttributeParser(name, ...includes(name)).parse(value)): the first
\* entry that does not parse throws
parseProperties(entries, req, acc) ==
  IF entries = <<>> THEN Ok(acc)
  ELSE LET e == Head(entries)
           r == parse(getAttributeParser(e.name, requiredIncludes(req, e.name), e.doc))
       IN IF r.status = "ok" THEN parseProperties(Tail(entries), req, Append(acc, r.data))
          ELSE r

ObjectSchema(doc, props) ==
  [type |-> "object", title |-> doc.title, properties |-> props, required |-> doc.required]

getObjectAttributeParser(n, req, doc) ==
  IF ~objectSchemaInputParser(doc) THEN Fail(<<Issue("InvalidSchema", "")>>)
  ELSE IF doc.properties = Undefined
  THEN Ok(Attribute(n, req, ObjectSchema(doc, Undefined), "object"))
  ELSE LET r == parseProperties(doc.properties.entries, doc.required, <<>>) IN
       IF r.status = "ok"
       THEN Ok(Attribute(n, req, ObjectSchema(doc, [k |-> "list", elems |-> sort(r.data)]), "object"))
       ELSE r

\* stringPropsParser.and(integerPropsParser).and(numberPropsParser)
\*   .and(booleanPropsParser).and(objectPropsInputParser).and(arrayPropsInputParser)
multiPropsParser(doc) ==
  /\ stringPropsParser(doc)
  /\ integerPropsParser(doc)
  /\ numberPropsParser(doc)
  /\ booleanPropsParser(doc)
  /\ objectPropsInputParser(doc)
  /\ arrayPropsInputParser(doc)

RECURSIVE AllTypeLiterals(_)
AllTypeLiterals(es) ==
  es = <<>> \/ (Head(es).k = "string" /\ Head(es).s \in TypeLiterals /\ AllTypeLiterals(Tail(es)))

\* multiSchemaTypeParser with .min(1) in place of .min(2)
multiSchemaTypeParserMin1(doc) ==
  /\ doc.k = "schema"
  /\ doc.type.k = "array"
  /\ AllTypeLiterals(doc.type.elems)
  /\ Len(doc.type.elems) >= 1

\* type: z.union([z.literal(...) x 7]).array().min(2)
multiSchemaTypeParser(doc) ==
  /\ doc.k = "schema"
  /\ doc.type.k = "array"
  /\ AllTypeLiterals(doc.type.elems)
  /\ Len(doc.type.elems) >= 2

\* one branch of the switch in schema.type.map (server.go 775-810)
multiSchemaOf(n, req, doc, t) ==
  LET d == [doc EXCEPT !.type = TypeLit(t)] IN
  CASE t = "boolean" -> parse(getBooleanAttributeParser(n, req, d))
    [] t = "integer" -> parse(getIntegerAttributeParser(n, req, d))
    [] t = "null" -> parse(getNullAttributeParser(n, req, d))
    [] t = "number" -> parse(getNumberAttributeParser(n, req, d))
    [] t = "string" -> parse(getStringAttributeParser(n, req, d))
    [] t = "array" -> parse(getArrayAttributeParser(n, req, d))
    [] t = "object" -> parse(getObjectAttributeParser(n, req, d))

\* schema.type.map(type => get<Type>AttributeParser(name, required)
\*   .parse({...schema, type}).schema)
parseMultiSchemas(n, req, doc, types, acc) ==
  IF types = <<>> THEN Ok(acc)
  ELSE LET r == multiSchemaOf(n, req, doc, Head(types).s) IN
       IF r.status = "ok"
       THEN parseMultiSchemas(n, req, doc, Tail(types), Append(acc, r.data.schema))
       ELSE r

getMultiAttributeParser(n, req, doc) ==
  IF ~(commonPropsParser(doc) /\ multiPropsParser(doc) /\ multiSchemaTypeParser(doc))
  THEN Fail(<<Issue("InvalidSchema", "")>>)
  ELSE LET r == parseMultiSchemas(n, req, doc, doc.type.elems, <<>>) IN
       IF r.status = "ok"
       THEN Ok([name |-> n, required |-> req, schemas |-> r.data, type |-> "multi"])
       ELSE r

getAttributeParser(n, req, doc) ==
  zUnion(<<getBooleanAttributeParser(n, req, doc),
           getIntegerAttributeParser(n, req, doc),
           getNullAttributeParser(n, req, doc),
           getNumberAttributeParser(n, req, doc),
           getStringAttributeParser(n, req, doc),
           getArrayAttributeParser(n, req, doc),
           getObjectAttributeParser(n, req, doc),
           getMultiAttributeParser(n, req, doc)>>)

----------------------------------------------------------------------------
(* Attribute value parsers (server.go 1035-1430) *)

\* a zod invalid_type issue: "Required" when the input is undefined
invalidType(u) ==
  IF u = Undefined THEN Issue("MissingRequired", "") ELSE Issue("TypeMismatch", "")

\* the value node built by the transforms
AttributeValue(a, v) ==
  [name |-> a.name, required |-> a.required, schema |-> a.schema, type |-> a.type, value |-> v]

\* z.<kind>() for a required attribute, z.<kind>().optional() otherwise
primitiveValueParser(a, kind, u) ==
  IF a.required
  THEN IF u.k = kind THEN Ok(AttributeValue(a, u)) ELSE Fail(<<invalidType(u)>>)
  ELSE IF u.k = kind \/ u = Undefined THEN Ok(AttributeValue(a, u)) ELSE Fail(<<invalidType(u)>>)

getBooleanAttributeValueParser(a, u) == primitiveValueParser(a, "boolean", u)

\* getIntegerAttributeValueParser built on z.string() in place of z.number()
getIntegerAttributeValueParserString(a, u) == primitiveValueParser(a, "string", u)

getIntegerAttributeValueParser(a, u) == primitiveValueParser(a, "number", u)

\* getNullAttributeValueParser taking the .optional() branch whatever required is
getNullAttributeValueParserOptional(a, u) ==
  IF u.k = "null" \/ u = Undefined THEN Ok(AttributeValue(a, u)) ELSE Fail(<<invalidType(u)>>)

getNullAttributeValueParser(a, u) == primitiveValueParser(a, "null", u)

getNumberAttributeValueParser(a, u) == primitiveValueParser(a, "number", u)
getStringAttributeValueParser(a, u) == primitiveValueParser(a, "string", u)

\* the value of z.NEVER pushed by a callback after context.addIssue
Never == [type |-> "never"]

Nodes(ns) == [k |-> "list", elems |-> ns]

RECURSIVE getAttributeValueParser(_, _)
RECURSIVE parseElements(_, _, _)
RECURSIVE parseEntries(_, _, _, _)
RECURSIVE reduceSchemas(_, _, _, _)

\* the map building its result in reverse order
parseElementsReversed(items, us, acc) ==
  IF us = <<>> THEN Ok(acc)
  ELSE LET r == parse(getAttributeValueParser(items, Head(us))) IN
       IF r.status = "ok" THEN parseElements(items, Tail(us), <<r.data>> \o acc)
       ELSE r

\* unknowns.map(unknown => getAttributeValueParser(attribute).parse(unknown))
parseElements(items, us, acc) ==
  IF us = <<>> THEN Ok(acc)
  ELSE LET r == parse(getAttributeValueParser(items, Head(us))) IN
       IF r.status = "ok" THEN parseElements(items, Tail(us), Append(acc, r.data))
       ELSE r

getArrayAttributeValueParser(a, u) ==
  LET attr == a.schema.items IN
  IF a.required
  THEN IF u.k # "array" THEN Fail(<<invalidType(u)>>)
       ELSE IF attr # Undefined
       THEN LET r == parseElements(attr, u.elems, <<>>) IN
            IF r.status = "ok" THEN Ok(AttributeValue(a, Nodes(r.data))) ELSE r
       ELSE Ok(AttributeValue(a, Nodes(<<>>)))
  ELSE IF u.k # "array" /\ u # Undefined THEN Fail(<<invalidType(u)>>)
       ELSE IF attr # Undefined
       THEN IF u = Undefined THEN Ok(AttributeValue(a, Undefined))
            ELSE LET r == parseElements(attr, u.elems, <<>>) IN
                 IF r.status = "ok" THEN Ok(AttributeValue(a, Nodes(r.data))) ELSE r
       ELSE Ok(AttributeValue(a, Nodes(<<>>)))

\* schema.properties?.find(property => property.name === name)
find(properties, n) ==
  IF properties = Undefined THEN Undefined
  ELSE IF \E i \in 1..Len(properties.elems) : properties.elems[i].name = n
  THEN properties.elems[CHOOSE i \in 1..Len(properties.elems) :
                          /\ properties.elems[i].name = n
                          /\ \A j \in 1..(i - 1) : properties.elems[j].name # n]
  ELSE Undefined

\* Object.entries(object).map(([name, value]) => ...): a declared key is
\* parsed (and throws when invalid), an undeclared key adds an issue and
\* yields z.NEVER; the map goes on after an issue
parseEntries(properties, es, acc, issues) ==
  IF es = <<>> THEN [status |-> "ok", data |-> acc, issues |-> issues]
  ELSE LET e == Head(es)
           attr == find(properties, e.key)
       IN IF attr # Undefined
          THEN LET r == parse(getAttributeValueParser(attr, e.val)) IN
               IF r.status = "ok"
               THEN parseEntries(properties, Tail(es), Append(acc, r.data), issues)
               ELSE r
          ELSE parseEntries(properties, Tail(es), Append(acc, Never),
                            Append(issues, Issue("UnknownAttribute", e.key)))

getObjectAttributeValueParser(a, u) ==
  IF a.required
  THEN IF u.k # "object" THEN Fail(<<invalidType(u)>>)
       ELSE LET r == parseEntries(a.schema.properties, u.entries, <<>>, <<>>) IN
            IF r.status # "ok" THEN r
            ELSE IF r.issues # <<>> THEN Fail(r.issues)
            ELSE Ok(AttributeValue(a, Nodes(sort(r.data))))
  ELSE IF u = Undefined THEN Ok(AttributeValue(a, Undefined))
       ELSE IF u.k # "object" THEN Fail(<<invalidType(u)>>)
       ELSE LET r == parseEntries(a.schema.properties, u.entries, <<>>, <<>>) IN
            IF r.status # "ok" THEN r
            ELSE IF r.issues # <<>> THEN Fail(r.issues)
            ELSE Ok(AttributeValue(a, Nodes(r.data)))

\* switch (schema.type) { case t: get<T>AttributeValueParser({name, required,
\*   schema, type: t}).safeParse(unknown) }
parseMultiValue(n, req, schema, u) ==
  LET a == Attribute(n, req, schema, schema.type) IN
  CASE schema.type = "boolean" -> safeParse(getBooleanAttributeValueParser(a, u))
    [] schema.type = "integer" -> safeParse(getIntegerAttributeValueParser(a, u))
    [] schema.type = "null" -> safeParse(getNullAttributeValueParser(a, u))
    [] schema.type = "number" -> safeParse(getNumberAttributeValueParser(a, u))
    [] schema.type = "string" -> safeParse(getStringAttributeValueParser(a, u))
    [] schema.type = "array" -> safeParse(getArrayAttributeValueParser(a, u))
    [] schema.type = "object" -> safeParse(getObjectAttributeValueParser(a, u))

\* the reduce step without the acc.success test: the last success is kept
reduceStepLastWins(a, acc, schema, u) ==
  LET result == parseMultiValue(a.name, a.required, schema, u) IN
  IF result.status = "fail" THEN acc ELSE result

\* one step of schemas.reduce (server.go 1357-1377): a success is kept, else
\* the next schema is tried; a throw leaves the reduce
reduceStep(a, acc, schema, u) ==
  IF acc.status = "ok" THEN acc
  ELSE LET result == parseMultiValue(a.name, a.required, schema, u) IN
       IF result.status = "fail" THEN acc ELSE result

reduceSchemas(a, schemas, acc, u) ==
  IF schemas = <<>> \/ acc.status = "throw" THEN acc
  ELSE reduceSchemas(a, Tail(schemas), reduceStep(a, acc, Head(schemas), u), u)

\* getMultiAttributeValueParser reporting the invalid_type issue of its
\* branches in place of the aggregate issue
getMultiAttributeValueParserBranchIssue(a, u) ==
  LET v == reduceSchemas(a, a.schemas, Fail(<<>>), u) IN
  IF v.status = "throw" THEN v
  ELSE IF v.status = "ok"
  THEN Ok([name |-> a.name, required |-> a.required, schemas |-> a.schemas,
           type |-> a.type, value |-> v.data])
  ELSE Fail(<<invalidType(u)>>)

getMultiAttributeValueParser(a, u) ==
  LET v == reduceSchemas(a, a.schemas, Fail(<<>>), u) IN
  IF v.status = "throw" THEN v
  ELSE IF v.status = "ok"
  THEN Ok([name |-> a.name, required |-> a.required, schemas |-> a.schemas,
           type |-> a.type, value |-> v.data])
  ELSE Fail(<<Issue("NoMatchingType", a.name)>>)

getAttributeValueParser(a, u) ==
  CASE a.type = "boolean" -> parse(getBooleanAttributeValueParser(a, u))
    [] a.type = "integer" -> parse(getIntegerAttributeValueParser(a, u))
    [] a.type = "null" -> parse(getNullAttributeValueParser(a, u))
    [] a.type = "number" -> parse(getNumberAttributeValueParser(a, u))
    [] a.type = "string" -> parse(getStringAttributeValueParser(a, u))
    [] a.type = "array" -> parse(getArrayAttributeValueParser(a, u))
    [] a.type = "object" -> parse(getObjectAttributeValueParser(a, u))
    [] a.type = "multi" -> parse(getMultiAttributeValueParser(a, u))

----------------------------------------------------------------------------
(* JSON-LD type parsers (server.go 856-1033) *)

\* object[key]: the value of the entry, Undefined when there is none
get(obj, key) ==
  IF \E i \in 1..Len(obj.entries) : obj.entries[i].key = key
  THEN obj.entries[CHOOSE i \in 1..Len(obj.entries) : obj.entries[i].key = key].val
  ELSE Undefined

\* key in object
in(key, obj) == \E i \in 1..Len(obj.entries) : obj.entries[i].key = key

\* the strings z.string().url() accepts among the checked ones
UrlStrings == {"https://example/", "https://example/T"}

isUrl(v) == v.k = "string" /\ v.s \in UrlStrings

\* an issue of the resolver: its kind, its message and the property the
\* message names
LdIssue(kind, message, property) == [kind |-> kind, message |-> message, property |-> property]

InvalidShape == LdIssue("InvalidContext", "invalid input", "")

\* "Couldn't find attribute credentialSubject in the schema"
NoCredentialSubject ==
  LdIssue("MissingCredentialSubject", "Couldn't find attribute credentialSubject in the schema", "")

\* "Couldn't find any valid type in the JSON LD context of the schema"
NoValidType ==
  LdIssue("InvalidContext", "Couldn't find any valid type in the JSON LD context of the schema", "")

\* schema.schema.properties.reduce((acc, curr) =>
\*   curr.type === "object" && curr.name === "credentialSubject" ? curr : acc, undefined)
RECURSIVE reduceCredentialSubject(_, _)
reduceCredentialSubject(props, acc) ==
  IF props = <<>> THEN acc
  ELSE reduceCredentialSubject(
         Tail(props),
         IF Head(props).type = "object" /\ Head(props).name = "credentialSubject"
         THEN Head(props) ELSE acc)

schemaCredentialSubject(schema) ==
  IF schema.type = "object" /\ schema.schema.properties # Undefined
  THEN reduceCredentialSubject(schema.schema.properties.elems, Undefined)
  ELSE Undefined

\* one step of the coverage reduce (server.go 899-905, 993-999)
coverageStep(acc, attr, context) ==
  IF acc.success /\ in(attr.name, context) THEN acc
  ELSE [success |-> FALSE,
        error |-> "Couldn't find Property of the JSON schema in the context",
        property |-> attr.name]

RECURSIVE reduceCoverage(_, _, _)
reduceCoverage(props, acc, context) ==
  IF props = <<>> THEN acc
  ELSE reduceCoverage(Tail(props), coverageStep(acc, Head(props), context), context)

\* properties?.reduce(..., { success: true }) || { error: "Couldn't find any
\* properties in schema's credentialSubject", success: false }
ldContextTypePropsParseResult(credentialSubject, context) ==
  IF credentialSubject.schema.properties = Undefined
  THEN [success |-> FALSE,
        error |-> "Couldn't find any properties in schema's credentialSubject",
        property |-> ""]
  ELSE reduceCoverage(credentialSubject.schema.properties.elems,
                      [success |-> TRUE, error |-> "", property |-> ""], context)

JsonLdType(id, n) == [id |-> id, name |-> n]

\* z.object({ "@context": z.record(z.unknown()),
\*            "@id": z.string().url(...) }).safeParse(value)
iden3TypeParser(v) ==
  v.k = "object" /\ get(v, "@context").k = "object" /\ isUrl(get(v, "@id"))

\* the step without the coverage check
iden3StepUncovered(acc, e, credentialSubject) ==
  IF iden3TypeParser(e.val)
  THEN [success |-> TRUE,
        value |-> IF acc.success
                  THEN Append(acc.value, JsonLdType(get(e.val, "@id").s, e.key))
                  ELSE <<JsonLdType(get(e.val, "@id").s, e.key)>>]
  ELSE acc

\* one step of the reduce over Object.entries(ldContext["@context"][0])
\* (server.go 889-921)
iden3Step(acc, e, credentialSubject) ==
  IF iden3TypeParser(e.val)
     /\ ldContextTypePropsParseResult(credentialSubject, get(e.val, "@context")).success
  THEN [success |-> TRUE,
        value |-> IF acc.success
                  THEN Append(acc.value, JsonLdType(get(e.val, "@id").s, e.key))
                  ELSE <<JsonLdType(get(e.val, "@id").s, e.key)>>]
  ELSE acc

RECURSIVE reduceIden3(_, _, _)
reduceIden3(es, acc, credentialSubject) ==
  IF es = <<>> THEN acc
  ELSE reduceIden3(Tail(es), iden3Step(acc, Head(es), credentialSubject), credentialSubject)

getIden3JsonLdTypeParser(schema, doc) ==
  IF ~(/\ doc.k = "object"
       /\ get(doc, "@context").k = "array"
       /\ Len(get(doc, "@context").elems) = 1
       /\ get(doc, "@context").elems[1].k = "object")
  THEN Fail(<<InvalidShape>>)
  ELSE LET credentialSubject == schemaCredentialSubject(schema) IN
       IF credentialSubject = Undefined THEN Fail(<<NoCredentialSubject>>)
       ELSE LET r == reduceIden3(get(doc, "@context").elems[1].entries,
                                 [success |-> FALSE, value |-> <<>>], credentialSubject)
            IN IF r.success THEN Ok(r.value) ELSE Fail(<<NoValidType>>)

\* z.object({ "@id": z.literal("schema-id") }).safeParse(value)
sertoTypeParser(v) == v.k = "object" /\ get(v, "@id") = Str("schema-id")

\* the step with the key before the schema id
sertoStepKeyFirst(acc, e, schemaId) ==
  IF ~acc.success /\ sertoTypeParser(e.val)
  THEN [success |-> TRUE, jsonLdType |-> JsonLdType(e.key \o schemaId, e.key)]
  ELSE acc

\* one step of the reduce over Object.entries(ldContext["@context"])
\* (server.go 979-988): the first matching entry is kept
sertoStep(acc, e, schemaId) ==
  IF ~acc.success /\ sertoTypeParser(e.val)
  THEN [success |-> TRUE, jsonLdType |-> JsonLdType(schemaId \o e.key, e.key)]
  ELSE acc

RECURSIVE reduceSerto(_, _, _)
reduceSerto(es, acc, schemaId) ==
  IF es = <<>> THEN acc
  ELSE reduceSerto(Tail(es), sertoStep(acc, Head(es), schemaId), schemaId)

getSertoJsonLdTypeParser(schema, doc) ==
  IF ~(doc.k = "object" /\ get(doc, "@context").k = "object")
  THEN Fail(<<InvalidShape>>)
  ELSE LET credentialSubject == schemaCredentialSubject(schema)
           context == get(doc, "@context")
       IN
       IF credentialSubject = Undefined THEN Fail(<<NoCredentialSubject>>)
       ELSE IF ~(/\ get(context, "credentialSubject").k = "object"
                 /\ get(get(context, "credentialSubject"), "@context").k = "object"
                 /\ isUrl(get(context, "schema-id")))
       THEN Throw(<<InvalidShape>>)
       ELSE LET jsonLdTypeParseResult ==
                  reduceSerto(context.entries,
                              [success |-> FALSE, jsonLdType |-> Undefined],
                              get(context, "schema-id").s)
                propsResult ==
                  ldContextTypePropsParseResult(
                    credentialSubject, get(get(context, "credentialSubject"), "@context"))
            IN IF jsonLdTypeParseResult.success /\ propsResult.success
               THEN Ok(<<jsonLdTypeParseResult.jsonLdType>>)
               ELSE IF ~propsResult.success
               THEN Fail(<<LdIssue("InvalidContext", propsResult.error, propsResult.property)>>)
               ELSE Fail(<<NoValidType>>)

\* z.union([getIden3JsonLdTypeParser(schema), getSertoJsonLdTypeParser(schema)]):
\* the first valid result, else an invalid_union issue holding the issues of
\* both options; a throw in an option propagates
getJsonLdTypeParser(schema, doc) ==
  LET iden3 == getIden3JsonLdTypeParser(schema, doc)
      serto == getSertoJsonLdTypeParser(schema, doc)
  IN IF iden3.status # "fail" THEN iden3
     ELSE IF serto.status # "fail" THEN serto
     ELSE Fail(iden3.issues \o serto.issues)

----------------------------------------------------------------------------
(* Checked inputs *)

SeqsUpTo(S, n) == UNION {[1..m -> S] : m \in 0..n}

DistinctSeqsUpTo(S, n) ==
  {s \in SeqsUpTo(S, n) : \A i, j \in 1..Len(s) : i # j => s[i] # s[j]}

PrimitiveDoc(t) == SchemaDoc(TypeLit(t), Undefined, Undefined, Undefined, Undefined, Undefined)

Titles == {Undefined, Str("T"), Num(50)}

Enums == {Undefined, Arr(<<>>), Arr(<<Bool(TRUE)>>), Arr(<<Num(50)>>), Arr(<<Str("a")>>)}

SingleTypes == {Undefined} \cup {TypeLit(t) : t \in TypeLiterals \cup {"date"}}

\* documents with a single (or no) type and no nested document
SingleDocs ==
  {SchemaDoc(t, Undefined, e, Undefined, Undefined, Undefined) : t \in SingleTypes, e \in Enums}
  \cup {SchemaDoc(t, ti, Undefined, Undefined, Undefined, Undefined) : t \in SingleTypes, ti \in Titles}

PropertyNames == {"a", "b", "c"}

RequiredLists == {Undefined, Arr(<<Str("a")>>), Arr(<<Str("a"), Str("b")>>), Num(50)}

\* property documents of the checked object schemas
SubDocs == {PrimitiveDoc("string"), PrimitiveDoc("object"), PrimitiveDoc("date")}

PropertyMaps ==
  UNION {{Record([i \in 1..Len(ns) |-> Prop(ns[i], ds[i])]) : ds \in [1..Len(ns) -> SubDocs]} :
         ns \in DistinctSeqsUpTo(PropertyNames, MaxProps)}

ObjectDocs ==
  {SchemaDoc(TypeLit("object"), Undefined, Undefined, Undefined, ps, req) :
     ps \in PropertyMaps, req \in RequiredLists}

NestedObjectDoc ==
  SchemaDoc(TypeLit("object"), Undefined, Undefined, Undefined,
            Record(<<Prop("a", PrimitiveDoc("string"))>>), Arr(<<Str("a")>>))

NestedArrayDoc ==
  SchemaDoc(TypeLit("array"), Undefined, Undefined, PrimitiveDoc("string"), Undefined, Undefined)

\* items of the checked array schemas: falsy and truthy scalars, schemas
ItemDocs ==
  {Num(0), Str("x"), PrimitiveDoc("string"), PrimitiveDoc("integer"), PrimitiveDoc("date"),
   NestedObjectDoc, NestedArrayDoc}

ArrayDocs ==
  {SchemaDoc(TypeLit("array"), Undefined, Undefined, it, Undefined, Undefined) : it \in ItemDocs}

MultiTokens == {"string", "integer", "number", "array", "object", "date"}

MultiDocs ==
  {SchemaDoc(TypeArr(ts), Undefined, Undefined, Undefined, Undefined, Undefined) :
     ts \in SeqsUpTo(MultiTokens, MaxTypes)}
  \cup {SchemaDoc(TypeArr(ts), Undefined, Arr(<<Str("a")>>), Undefined, Undefined, Undefined) :
     ts \in SeqsUpTo(MultiTokens, MaxTypes)}
  \cup {SchemaDoc(TypeArr(ts), Undefined, Undefined, PrimitiveDoc("string"),
                  Record(<<Prop("a", PrimitiveDoc("string"))>>), Arr(<<Str("a")>>)) :
     ts \in SeqsUpTo(MultiTokens, MaxTypes)}

\* documents of the credentialSubject property: without a properties field,
\* with an empty one, with one and two properties, and not an object
CredentialSubjectDocs ==
  {PrimitiveDoc("object"), PrimitiveDoc("string")}
  \cup {SchemaDoc(TypeLit("object"), Undefined, Undefined, Undefined, Record(ps), Undefined) :
          ps \in {<<>>,
                  <<Prop("id", PrimitiveDoc("string"))>>,
                  <<Prop("id", PrimitiveDoc("string")), Prop("x", PrimitiveDoc("string"))>>}}

\* credential schemas: an object with a credentialSubject property
CredentialDocs ==
  {SchemaDoc(TypeLit("object"), Undefined, Undefined, Undefined,
             Record(<<Prop("credentialSubject", cs)>>), Undefined) :
     cs \in CredentialSubjectDocs}

SchemaDocs ==
  SingleDocs \cup ObjectDocs \cup ArrayDocs \cup MultiDocs \cup CredentialDocs \cup {Str("x")}

\* property contexts: the terms a JSON-LD type defines
Term == Obj(<<Entry("@id", Str("term"))>>)

PropertyContexts ==
  {Obj(<<>>), Obj(<<Entry("id", Term)>>), Obj(<<Entry("x", Term)>>),
   Obj(<<Entry("id", Term), Entry("x", Term)>>)}

TypeNames == {"T1", "T2"}

\* entries of the mapping of an iden3 context: candidates with each property
\* context, a candidate whose @id is not a URL and a scalar
Iden3Candidates ==
  {Obj(<<Entry("@context", c), Entry("@id", Str("https://example/T"))>>) : c \in PropertyContexts}
  \cup {Obj(<<Entry("@context", Obj(<<Entry("id", Term), Entry("x", Term)>>)),
                Entry("@id", Str("T"))>>),
        Str("x")}

Iden3Contexts ==
  UNION {{Obj(<<Entry("@context", Arr(<<Obj([i \in 1..Len(ks) |-> Entry(ks[i], vs[i])])>>))>>) :
            vs \in [1..Len(ks) -> Iden3Candidates]} :
         ks \in DistinctSeqsUpTo(TypeNames, 2)}

SchemaIdType == Obj(<<Entry("@id", Str("schema-id"))>>)

\* the type entries of a serto context: none, one, two in both orders, and one
\* after an entry that is not a type
SertoTypeEntries ==
  {<<>>,
   <<Entry("T1", SchemaIdType)>>,
   <<Entry("T1", SchemaIdType), Entry("T2", SchemaIdType)>>,
   <<Entry("T2", SchemaIdType), Entry("T1", SchemaIdType)>>,
   <<Entry("T1", Term), Entry("T2", SchemaIdType)>>}

SertoCredentialSubjects ==
  {<<>>} \cup {<<Entry("credentialSubject", Obj(<<Entry("@context", c)>>))>> : c \in PropertyContexts}

SertoSchemaIds ==
  {<<Entry("schema-id", Str("https://example/"))>>, <<Entry("schema-id", Str("example"))>>}

SertoContexts ==
  {Obj(<<Entry("@context", Obj(ts \o cs \o id))>>) :
     ts \in SertoTypeEntries, cs \in SertoCredentialSubjects, id \in SertoSchemaIds}
  \cup {Obj(<<Entry("@context", Obj(<<Entry("T1", SchemaIdType),
                                       Entry("credentialSubject",
                                             Obj(<<Entry("@context", Obj(<<Entry("id", Term)>>))>>))>>))>>)}

\* documents of neither shape
OtherContexts ==
  {Obj(<<>>),
   Obj(<<Entry("@context", Str("https://example/"))>>),
   Obj(<<Entry("@context", Arr(<<>>))>>),
   Obj(<<Entry("@context", Arr(<<Str("https://example/")>>))>>),
   Obj(<<Entry("@context", Arr(<<Obj(<<>>), Obj(<<>>)>>))>>),
   Str("x")}

LdContexts == Iden3Contexts \cup SertoContexts \cup OtherContexts

\* the bodies of the CreateCredential requests: which proofs are given
Bodies == [SignatureProof : BOOLEAN, MtProof : BOOLEAN]

\* the sentinel errors of the claim service
SentinelErrors ==
  {"ErrJSONLdContext", "ErrProcessSchema", "ErrLoadingSchema", "ErrMalformedURL"}

\* the errors CreateClaim returns: a sentinel or an error that is none of
\* them, bare or wrapped with a context message
ClaimErrors == [is : SentinelErrors \cup {"other"}, wrapped : BOOLEAN]

ClaimIds == {"id1", "id2"}

\* the nil error
nil == [is |-> "nil"]

\* the ids of the GetSchema requests
SchemaIds == {"id1", "id2"}

\* the errors GetByID returns: ErrSchemaNotFound or another error, bare or
\* wrapped
SchemaErrors == [is : {"ErrSchemaNotFound", "other"}, wrapped : BOOLEAN]

\* the (schema, err) pairs GetByID returns: a schema without error, or an
\* error with a nil or a non-nil schema
SchemaResults ==
  {[err |-> nil, schema |-> "schema"]}
  \cup {[err |-> e, schema |-> sc] : e \in SchemaErrors, sc \in {"nil", "schema"}}

\* a handler that panicked and produced no response
Panic == [panic |-> "nil pointer dereference"]

\* the (resp, err) pairs CreateClaim returns
ClaimResults ==
  {[err |-> nil, ID |-> i] : i \in ClaimIds} \cup {[err |-> e] : e \in ClaimErrors}

Scalars ==
  {Undefined, Null, Bool(TRUE), Bool(FALSE), Num(50), Num(55), Str("5"), Str("a")}

ElementValues == {Undefined, Num(50), Str("a")}

ArrayValues == {Arr(es) : es \in SeqsUpTo(ElementValues, MaxElems)}

Keys == {"a", "b", "z"}

EntryValues == {Str("a"), Num(50), Obj(<<>>)}

ObjectValues ==
  UNION {{Obj([i \in 1..Len(ks) |-> Entry(ks[i], vs[i])]) : vs \in [1..Len(ks) -> EntryValues]} :
         ks \in DistinctSeqsUpTo(Keys, MaxKeys)}

Unknowns == Scalars \cup ArrayValues \cup ObjectValues

----------------------------------------------------------------------------
(* The state machine.  A parser run parses a schema document into an
   attribute, then validates a value document against the attribute or
   resolves the JSON-LD types of a context document.  A server run handles
   one CreateCredential or one GetSchema request. *)

None == [status |-> "none"]

\* a parser run: a schema document waits to be parsed
InitParser ==
  /\ engine \in Engines
  /\ required \in BOOLEAN
  /\ schemaDoc \in SchemaDocs
  /\ attribute = None
  /\ unknown = Undefined
  /\ value = None
  /\ ldContext = Undefined
  /\ jsonLdTypes = None
  /\ request = None
  /\ claim = None
  /\ byID = None
  /\ response = None
  /\ pc = "schema"

\* a server run: a CreateCredential or a GetSchema request waits to be
\* handled
InitServer ==
  /\ engine = "later_first"
  /\ required = FALSE
  /\ schemaDoc = Undefined
  /\ attribute = None
  /\ unknown = Undefined
  /\ value = None
  /\ ldContext = Undefined
  /\ jsonLdTypes = None
  /\ \/ request \in Bodies /\ pc = "request"
     \/ request \in [Id : SchemaIds] /\ pc = "getSchema"
  /\ claim = None
  /\ byID = None
  /\ response = None

Init == InitParser \/ InitServer

\* getAttributeParser(name, required).parse(schemaDoc)
ParseSchema ==
  /\ pc = "schema"
  /\ attribute' = parse(getAttributeParser("schema", required, schemaDoc))
  /\ pc' = IF attribute'.status = "ok" THEN "attribute" ELSE "invalid"
  /\ UNCHANGED <<engine, required, schemaDoc, unknown, value>>
  /\ UNCHANGED <<ldContext, jsonLdTypes, request, claim, byID, response>>

\* getAttributeValueParser(attribute).parse(unknown)
ParseValue ==
  /\ pc = "attribute"
  /\ \E u \in Unknowns :
       /\ unknown' = u
       /\ value' = parse(getAttributeValueParser(attribute.data, u))
  /\ pc' = "value"
  /\ UNCHANGED <<engine, required, schemaDoc, attribute>>
  /\ UNCHANGED <<ldContext, jsonLdTypes, request, claim, byID, response>>

\* getJsonLdTypeParser(schema) applied to a context document; the schema is
\* the attribute of jsonSchemaParser, parsed as getAttributeParser("schema", false)
ParseJsonLdType ==
  /\ pc = "attribute"
  /\ required = FALSE
  /\ \E doc \in LdContexts :
       /\ ldContext' = doc
       /\ jsonLdTypes' = getJsonLdTypeParser(attribute.data, doc)
  /\ pc' = "jsonld"
  /\ UNCHANGED <<engine, required, schemaDoc, attribute, unknown, value>>
  /\ UNCHANGED <<request, claim, byID, response>>

\* errors.Is(err, target)
errorsIs(err, target) == err.is = target

\* err.Error(): a wrapping error prefixes the message of the error it wraps
Error(err) == IF err.wrapped THEN "create claim: " \o err.is ELSE err.is

JSONResponse(status, message) == [status |-> status, Message |-> message]

\* the response with 400 for every sentinel error
CreateCredentialResponseObject400(resp) ==
  IF resp.err # nil
  THEN IF errorsIs(resp.err, "ErrJSONLdContext") THEN JSONResponse(400, Error(resp.err))
       ELSE IF errorsIs(resp.err, "ErrProcessSchema") THEN JSONResponse(400, Error(resp.err))
       ELSE IF errorsIs(resp.err, "ErrLoadingSchema") THEN JSONResponse(400, Error(resp.err))
       ELSE IF errorsIs(resp.err, "ErrMalformedURL") THEN JSONResponse(400, Error(resp.err))
       ELSE JSONResponse(500, Error(resp.err))
  ELSE [status |-> 201, Id |-> resp.ID]

\* the response of CreateCredential after CreateClaim returned (resp, err)
\* (server.go 305-320)
CreateCredentialResponseObject(resp) ==
  IF resp.err # nil
  THEN IF errorsIs(resp.err, "ErrJSONLdContext") THEN JSONResponse(400, Error(resp.err))
       ELSE IF errorsIs(resp.err, "ErrProcessSchema") THEN JSONResponse(400, Error(resp.err))
       ELSE IF errorsIs(resp.err, "ErrLoadingSchema") THEN JSONResponse(422, Error(resp.err))
       ELSE IF errorsIs(resp.err, "ErrMalformedURL") THEN JSONResponse(400, Error(resp.err))
       ELSE JSONResponse(500, Error(resp.err))
  ELSE [status |-> 201, Id |-> resp.ID]

\* Server.CreateCredential: the second result, the Go error, is nil on
\* every path
CreateCredential ==
  /\ pc = "request"
  /\ IF ~request.SignatureProof /\ ~request.MtProof
     THEN /\ claim' = None
          /\ response' = [object |-> JSONResponse(400, "you must to provide at least one proof type"),
                          err |-> nil]
     ELSE \E resp \in ClaimResults :
            /\ claim' = resp
            /\ response' = [object |-> CreateCredentialResponseObject(resp), err |-> nil]
  /\ pc' = "response"
  /\ UNCHANGED <<engine, required, schemaDoc, attribute, unknown, value>>
  /\ UNCHANGED <<ldContext, jsonLdTypes, request, byID>>

\* the outcomes of GetSchema200JSONResponse(schemaResponse(schema)): a 200
\* response built from the schema; schemaResponse is given a nil pointer
\* when GetByID returned none, and then the call panics if it reads through
\* the pointer
GetSchema200JSONResponse(schema) ==
  {[object |-> [status |-> 200, Schema |-> schema], err |-> nil]}
  \cup IF schema = "nil" THEN {Panic} ELSE {}

\* Server.GetSchema (server.go 57-67): 404 for ErrSchemaNotFound; any other
\* error is logged and the 200 response is built all the same
GetSchema ==
  /\ pc = "getSchema"
  /\ \E r \in SchemaResults :
       /\ byID' = r
       /\ IF errorsIs(r.err, "ErrSchemaNotFound")
          THEN response' = [object |-> JSONResponse(404, "schema not found"), err |-> nil]
          ELSE response' \in GetSchema200JSONResponse(r.schema)
  /\ pc' = "schemaResponse"
  /\ UNCHANGED <<engine, required, schemaDoc, attribute, unknown, value>>
  /\ UNCHANGED <<ldContext, jsonLdTypes, request, claim>>

Next == ParseSchema \/ ParseValue \/ ParseJsonLdType \/ CreateCredential \/ GetSchema

Spec == Init /\ [][Next]_vars

TypeOK ==
  /\ pc \in {"schema", "attribute", "invalid", "value", "jsonld", "request", "response",
            "getSchema", "schemaResponse"}
  /\ jsonLdTypes.status \in {"none", "ok", "fail", "throw"}
  /\ attribute.status \in {"none", "ok", "throw"}
  /\ value.status \in {"none", "ok", "throw"}

----------------------------------------------------------------------------
(* Vocabulary of the properties *)

Parsed == pc \in {"attribute", "value", "jsonld"}
SchemaParsed == pc \in {"attribute", "invalid", "value", "jsonld"}
Validated == pc = "value"
Rejected == value.status = "throw"
Accepted == value.status = "ok"
FirstIssue == value.issues[1]

Primitives == {"boolean", "integer", "number", "string", "null"}

\* the runtime shape a value of the declared primitive type has
NativeShape(t, u) ==
  CASE t = "boolean" -> u.k = "boolean"
    [] t = "integer" -> u.k = "number" /\ u.tenths % 10 = 0
    [] t = "number" -> u.k = "number"
    [] t = "string" -> u.k = "string"
    [] t = "null" -> u.k = "null"
    [] OTHER -> FALSE

NamesOf(xs) == [i \in 1..Len(xs) |-> xs[i].name]

HasKey(u, key) == \E i \in 1..Len(u.entries) : u.entries[i].key = key

Declared(a, key) ==
  /\ a.schema.properties # Undefined
  /\ \E i \in 1..Len(a.schema.properties.elems) : a.schema.properties.elems[i].name = key

ObjectCase ==
  Validated /\ attribute.data.type = "object" /\ unknown.k = "object"

----------------------------------------------------------------------------
(* C1  property ordering of a parsed Object schema *)

\* the names of the input property map in iteration order, those of the
\* non-Object properties first, each group in input order
StablePartition(entries, props) ==
  LET IsObject(n) == find(props, n).type = "object"
      NotObject(n) == ~IsObject(n)
      ns == NamesOf(entries)
  IN SelectSeq(ns, NotObject) \o SelectSeq(ns, IsObject)

\* C1: for every parsed Object schema with properties, the property
\* sequence has every non-Object property before every Object property and
\* each of the two groups keeps the order of the input property map, also
\* when two or more properties are Object-typed.
C1_PropertyOrder ==
  (Parsed /\ attribute.data.type = "object" /\ attribute.data.schema.properties # Undefined)
    => NamesOf(attribute.data.schema.properties.elems)
         = StablePartition(schemaDoc.properties.entries, attribute.data.schema.properties)

----------------------------------------------------------------------------
(* C2  first-match resolution of a Multi attribute *)

MultiCase == Validated /\ attribute.data.type = "multi"

Accepts(i) ==
  parseMultiValue(attribute.data.name, attribute.data.required,
                  attribute.data.schemas[i], unknown).status = "ok"

FirstAccepting ==
  CHOOSE i \in 1..Len(attribute.data.schemas) :
    Accepts(i) /\ \A j \in 1..(i - 1) : ~Accepts(j)

\* C2: the candidate schemas of a Multi attribute are in the order of the
\* document's type array, and the result of validating a value is the value
\* node of the first candidate that accepts it, also when a later candidate
\* accepts it too.
C2_FirstMatchWins ==
  MultiCase =>
    /\ Len(attribute.data.schemas) = Len(schemaDoc.type.elems)
    /\ \A i \in 1..Len(attribute.data.schemas) :
         attribute.data.schemas[i].type = schemaDoc.type.elems[i].s
    /\ (\E i \in 1..Len(attribute.data.schemas) : Accepts(i))
         => /\ Accepted
            /\ value.data.value.type = schemaDoc.type.elems[FirstAccepting].s
            /\ value.data.value
                 = parseMultiValue(attribute.data.name, attribute.data.required,
                                   attribute.data.schemas[FirstAccepting], unknown).data

\* [integer, number] validating 5: both candidates accept, integer wins
C2_Witness ==
  /\ MultiCase
  /\ schemaDoc.type = TypeArr(<<"integer", "number">>)
  /\ unknown = Num(50)
  /\ Accepts(1) /\ Accepts(2)
  /\ Accepted /\ value.data.value.type = "integer"

----------------------------------------------------------------------------
(* C3  required properties absent from the input object *)

\* C3: when an object is validated against an Object attribute, a declared
\* property with required = true whose key is absent from the input makes
\* validation fail with MissingRequired.
C3_AbsentRequired ==
  (ObjectCase
   /\ attribute.data.schema.properties # Undefined
   /\ \E i \in 1..Len(attribute.data.schema.properties.elems) :
        /\ attribute.data.schema.properties.elems[i].required
        /\ ~HasKey(unknown, attribute.data.schema.properties.elems[i].name))
    => /\ Rejected
       /\ \E i \in 1..Len(value.issues) : value.issues[i].kind = "MissingRequired"

----------------------------------------------------------------------------
(* C4  undeclared keys of the input object *)

FirstUndeclared ==
  CHOOSE i \in 1..Len(unknown.entries) :
    /\ ~Declared(attribute.data, unknown.entries[i].key)
    /\ \A j \in 1..(i - 1) : Declared(attribute.data, unknown.entries[j].key)

\* C4: whenever the input object has a key that is not the name of a
\* declared property, validation fails with UnknownAttribute naming the
\* first such key, whatever the other keys are and whether or not they
\* validate.
C4_UnknownAttribute ==
  (ObjectCase
   /\ \E i \in 1..Len(unknown.entries) : ~Declared(attribute.data, unknown.entries[i].key))
    => /\ Rejected
       /\ \E i \in 1..Len(value.issues) :
            /\ value.issues[i] = Issue("UnknownAttribute", unknown.entries[FirstUndeclared].key)
            /\ \A j \in 1..(i - 1) : value.issues[j].kind # "UnknownAttribute"

----------------------------------------------------------------------------
(* C5  enumerated value sets *)

InEnum(enum, u) == \E i \in 1..Len(enum.elems) : enum.elems[i] = u

\* C5: a Boolean, Integer, Number or String attribute that declares an
\* enumerated set rejects, with EnumViolation, a value of the right native
\* shape that is not a member of the set.
C5_EnumMembership ==
  (Validated
   /\ attribute.data.type \in {"boolean", "integer", "number", "string"}
   /\ attribute.data.schema.enum # Undefined
   /\ NativeShape(attribute.data.type, unknown)
   /\ ~InEnum(attribute.data.schema.enum, unknown))
    => /\ Rejected
       /\ FirstIssue.kind = "EnumViolation"

----------------------------------------------------------------------------
(* C6  undefined against a primitive attribute *)

\* C6: for each of the five primitive variants, validating undefined fails
\* with MissingRequired when the attribute is required and succeeds with a
\* value node whose value is undefined when it is not.
C6_PrimitiveUndefined ==
  (Validated /\ attribute.data.type \in Primitives /\ unknown = Undefined)
    => IF attribute.data.required
       THEN Rejected /\ value.issues = <<Issue("MissingRequired", "")>>
       ELSE Accepted /\ value.data.value = Undefined

C6_Witness ==
  /\ Validated /\ attribute.data.type = "null" /\ unknown = Undefined
  /\ attribute.data.required
  /\ Rejected /\ FirstIssue.kind = "MissingRequired"

----------------------------------------------------------------------------
(* C7  undefined against a required composite attribute *)

RequiredCompositeUndefined ==
  /\ Validated
  /\ attribute.data.type \in {"array", "object", "multi"}
  /\ attribute.data.required
  /\ unknown = Undefined

\* C7 as stated: validating undefined against a required Array, Object or
\* Multi attribute fails with MissingRequired.
C7_Original ==
  RequiredCompositeUndefined => (Rejected /\ FirstIssue.kind = "MissingRequired")

\* C7 amended: validating undefined against a required Array or Object
\* attribute fails with MissingRequired; against a required Multi attribute
\* it fails with the aggregate NoMatchingType.
C7_RequiredComposite ==
  RequiredCompositeUndefined
    => /\ Rejected
       /\ FirstIssue.kind = IF attribute.data.type = "multi" THEN "NoMatchingType"
                            ELSE "MissingRequired"

C7_Witness ==
  /\ RequiredCompositeUndefined
  /\ attribute.data.type = "multi"
  /\ Rejected /\ FirstIssue.kind = "NoMatchingType"

----------------------------------------------------------------------------
(* C8  round trip of a primitive value *)

\* C8: validating a value of the native shape of a primitive attribute
\* parsed from a well-formed schema succeeds, and the value node holds the
\* input value and the attribute's name, required flag and schema.
C8_PrimitiveRoundTrip ==
  (Validated /\ attribute.data.type \in Primitives
   /\ NativeShape(attribute.data.type, unknown))
    => /\ Accepted
       /\ value.data.value = unknown
       /\ value.data.name = "schema"
       /\ value.data.required = required
       /\ value.data.type = schemaDoc.type.s
       /\ value.data.schema = attribute.data.schema
       /\ value.data.schema.type = schemaDoc.type.s
       /\ value.data.schema.title = schemaDoc.title

C8_Witness ==
  /\ Validated /\ attribute.data.type = "string" /\ unknown = Str("5")
  /\ schemaDoc.title = Str("T")
  /\ Accepted /\ value.data.value = Str("5") /\ value.data.schema.title = Str("T")

----------------------------------------------------------------------------
(* C9  runtime shape of a primitive value *)

\* C9: a primitive attribute rejects, with TypeMismatch, every defined value
\* whose runtime shape is not that of the declared type; an Integer
\* attribute rejects 5.5.
C9_ShapeChecked ==
  (Validated /\ attribute.data.type \in Primitives
   /\ unknown # Undefined
   /\ ~NativeShape(attribute.data.type, unknown))
    => (Rejected /\ FirstIssue.kind = "TypeMismatch")

----------------------------------------------------------------------------
(* C10  the type field of a schema document *)

WellTyped(doc) ==
  /\ doc.k = "schema"
  /\ \/ doc.type.k = "string" /\ doc.type.s \in TypeLiterals
     \/ /\ doc.type.k = "array"
        /\ Len(doc.type.elems) >= 2
        /\ \A i \in 1..Len(doc.type.elems) : doc.type.elems[i].s \in TypeLiterals

\* C10: getAttributeParser fails with InvalidSchema when the type field is
\* missing, is a literal outside the seven type literals, is an empty or
\* single-element array or an array with a token outside the seven; it
\* returns an attribute only for one of the seven literals or an array of
\* two or more of them.
C10_TypeField ==
  SchemaParsed
    => /\ ~WellTyped(schemaDoc)
            => (attribute.status = "throw" /\ attribute.issues[1].kind = "InvalidSchema")
       /\ attribute.status = "ok" => WellTyped(schemaDoc)

C10_Witness ==
  /\ pc = "invalid"
  /\ schemaDoc.k = "schema"
  /\ schemaDoc.type = TypeArr(<<"string">>)
  /\ attribute.status = "throw"

----------------------------------------------------------------------------
(* C11  repeated literals in a type array *)

HasDuplicate(xs) == \E i, j \in 1..Len(xs) : i # j /\ xs[i] = xs[j]

\* C11: a schema document whose type array holds the same literal more than
\* once is rejected with InvalidSchema, so a parsed Multi attribute never
\* holds two candidate schemas of the same type.
C11_DistinctTypes ==
  SchemaParsed
    => /\ (schemaDoc.k = "schema" /\ schemaDoc.type.k = "array"
           /\ HasDuplicate(schemaDoc.type.elems))
            => (attribute.status = "throw" /\ attribute.issues[1].kind = "InvalidSchema")
       /\ (attribute.status = "ok" /\ attribute.data.type = "multi")
            => ~HasDuplicate([i \in 1..Len(attribute.data.schemas) |->
                                attribute.data.schemas[i].type])

----------------------------------------------------------------------------
(* C12  no partial attribute trees *)

IsArrayDoc(doc) == doc.k = "schema" /\ doc.type = TypeLit("array")
IsObjectDoc(doc) == doc.k = "schema" /\ doc.type = TypeLit("object")

\* every items and every properties entry present in the document has its
\* attribute in the tree, at every depth
RECURSIVE Complete(_, _)
Complete(doc, a) ==
  /\ (IsArrayDoc(doc) /\ doc.items # Undefined)
       => (a.schema.items # Undefined /\ Complete(doc.items, a.schema.items))
  /\ (IsObjectDoc(doc) /\ doc.properties # Undefined)
       => /\ a.schema.properties # Undefined
          /\ Len(a.schema.properties.elems) = Len(doc.properties.entries)
          /\ \A i \in 1..Len(doc.properties.entries) :
               LET e == doc.properties.entries[i] IN
               /\ find(a.schema.properties, e.name) # Undefined
               /\ Complete(e.doc, find(a.schema.properties, e.name))

\* a nested node that is present and does not parse, at every depth
RECURSIVE NestedInvalid(_, _)
NestedInvalid(doc, req) ==
  \/ /\ IsArrayDoc(doc) /\ doc.items # Undefined
     /\ \/ getAttributeParser("items", req, doc.items).status # "ok"
        \/ NestedInvalid(doc.items, req)
  \/ /\ IsObjectDoc(doc) /\ doc.properties # Undefined /\ doc.properties.k = "record"
     /\ \E i \in 1..Len(doc.properties.entries) :
          LET e == doc.properties.entries[i] IN
          \/ getAttributeParser(e.name, FALSE, e.doc).status # "ok"
          \/ NestedInvalid(e.doc, FALSE)

\* C12: schema parsing never yields a partial tree: a structurally invalid
\* items or properties entry, at any depth, fails the whole parse, and a
\* successful parse has an attribute for every present items and every
\* properties entry.
C12_NoPartialTree ==
  SchemaParsed
    => /\ NestedInvalid(schemaDoc, required) => attribute.status = "throw"
       /\ attribute.status = "ok" => Complete(schemaDoc, attribute.data)

----------------------------------------------------------------------------
(* C19  aggregate failure of a Multi attribute *)

\* C19: when none of a Multi attribute's candidate schemas validates the
\* value, the outcome is the aggregate NoMatchingType error and no branch
\* error is surfaced, also when an array or object candidate accepts the
\* outer shape and a nested element or property fails.
C19_AggregateOnly ==
  (MultiCase /\ \A i \in 1..Len(attribute.data.schemas) : ~Accepts(i))
    => /\ Rejected
       /\ value.issues = <<Issue("NoMatchingType", attribute.data.name)>>

----------------------------------------------------------------------------
(* C20  ordering of the children of an object value *)

ObjectsLast(nodes) ==
  \A i, j \in 1..Len(nodes) :
    (i < j) => ~(nodes[i].type = "object" /\ nodes[j].type # "object")

\* C20: the children of the value produced for an Object attribute are
\* ordered, every non-Object child before every Object child, for required
\* and for optional attributes.
C20_ValueOrder ==
  (ObjectCase /\ Accepted /\ value.data.value # Undefined)
    => ObjectsLast(value.data.value.elems)

----------------------------------------------------------------------------
(* Vocabulary of the JSON-LD properties *)

Resolved == pc = "jsonld"

\* the attribute tree has an Object-typed property named credentialSubject
HasCredentialSubject ==
  /\ attribute.data.type = "object"
  /\ attribute.data.schema.properties # Undefined
  /\ \E i \in 1..Len(attribute.data.schema.properties.elems) :
       /\ attribute.data.schema.properties.elems[i].name = "credentialSubject"
       /\ attribute.data.schema.properties.elems[i].type = "object"

CredentialSubject ==
  attribute.data.schema.properties.elems[
    CHOOSE i \in 1..Len(attribute.data.schema.properties.elems) :
      /\ attribute.data.schema.properties.elems[i].name = "credentialSubject"
      /\ attribute.data.schema.properties.elems[i].type = "object"]

\* credentialSubject has a properties list, possibly an empty one
DeclaresProperties == CredentialSubject.schema.properties # Undefined

SubjectNames ==
  IF DeclaresProperties
  THEN {CredentialSubject.schema.properties.elems[i].name :
          i \in 1..Len(CredentialSubject.schema.properties.elems)}
  ELSE {}

\* every property name of credentialSubject is a key of the mapping
Covers(context) == \A n \in SubjectNames : \E i \in 1..Len(context.entries) : context.entries[i].key = n

IsMapping(v) == v.k = "object"

Field(v, key) ==
  IF \E i \in 1..Len(v.entries) : v.entries[i].key = key
  THEN v.entries[CHOOSE i \in 1..Len(v.entries) : v.entries[i].key = key].val
  ELSE Undefined

\* Convention A shape: "@context" is a one-element sequence holding a mapping
Iden3Shape ==
  /\ IsMapping(ldContext)
  /\ Field(ldContext, "@context").k = "array"
  /\ Len(Field(ldContext, "@context").elems) = 1
  /\ IsMapping(Field(ldContext, "@context").elems[1])

Iden3Entries == Field(ldContext, "@context").elems[1].entries

\* a mapping with an "@context" mapping and a URL-valued "@id"
Candidate(v) ==
  /\ IsMapping(v)
  /\ IsMapping(Field(v, "@context"))
  /\ Field(v, "@id").k = "string"
  /\ Field(v, "@id").s \in UrlStrings

Binding(e) == [id |-> Field(e.val, "@id").s, name |-> e.key]

\* Convention B shape: "@context" is a flat mapping with a credentialSubject
\* entry holding an "@context" mapping and a URL-valued schema-id entry
SertoShape ==
  /\ IsMapping(ldContext)
  /\ IsMapping(Field(ldContext, "@context"))
  /\ IsMapping(Field(Field(ldContext, "@context"), "credentialSubject"))
  /\ IsMapping(Field(Field(Field(ldContext, "@context"), "credentialSubject"), "@context"))
  /\ Field(Field(ldContext, "@context"), "schema-id").k = "string"
  /\ Field(Field(ldContext, "@context"), "schema-id").s \in UrlStrings

SertoEntries == Field(ldContext, "@context").entries

SchemaId == Field(Field(ldContext, "@context"), "schema-id").s

SubjectContext == Field(Field(Field(ldContext, "@context"), "credentialSubject"), "@context")

\* the entries of the outer mapping whose value is {"@id": "schema-id"}
IsSchemaIdType(e) == IsMapping(e.val) /\ Field(e.val, "@id") = Str("schema-id")

SchemaIdTypes == SelectSeq(SertoEntries, IsSchemaIdType)

----------------------------------------------------------------------------
(* C13  Convention A resolution *)

Covered(e) == Candidate(e.val) /\ Covers(Field(e.val, "@context"))

\* C13 as stated: for a Convention A context the result is exactly the list,
\* in entry order, of the bindings of the candidates whose "@context" has a
\* key for every property name of credentialSubject, and resolution fails
\* when there is none.
C13_Original ==
  (Resolved /\ HasCredentialSubject /\ Iden3Shape)
    => LET accepted == SelectSeq(Iden3Entries, Covered)
       IN IF accepted = <<>>
          THEN jsonLdTypes.status # "ok"
          ELSE jsonLdTypes = Ok([i \in 1..Len(accepted) |-> Binding(accepted[i])])

Accepted13(e) == DeclaresProperties /\ Covered(e)

\* C13: for a Convention A context the result is exactly the list, in entry
\* order, of the bindings of the candidates accepted: credentialSubject
\* declares a properties list and the candidate's "@context" has a key for
\* every name in it; resolution fails when no entry is accepted.
C13_Iden3Resolution ==
  (Resolved /\ HasCredentialSubject /\ Iden3Shape)
    => LET accepted == SelectSeq(Iden3Entries, Accepted13)
       IN IF accepted = <<>>
          THEN jsonLdTypes.status # "ok"
          ELSE jsonLdTypes = Ok([i \in 1..Len(accepted) |-> Binding(accepted[i])])

\* a context with two entries of which one is accepted and one is excluded
\* for coverage
C13_Witness ==
  /\ Resolved /\ HasCredentialSubject /\ Iden3Shape
  /\ SubjectNames # {}
  /\ Len(Iden3Entries) = 2
  /\ \E i \in 1..2 : Candidate(Iden3Entries[i].val) /\ ~Covered(Iden3Entries[i])
  /\ jsonLdTypes.status = "ok"
  /\ Len(jsonLdTypes.data) = 1

----------------------------------------------------------------------------
(* C14  Convention B resolution *)

\* C14 as stated: for a Convention B context the result is the single
\* binding {id: schema-id concatenated with k, name: k} of the entry whose
\* value is {"@id": "schema-id"} if and only if such an entry exists and
\* every property name of credentialSubject is a key of
\* credentialSubject["@context"]; otherwise resolution fails.
C14_Original ==
  (Resolved /\ HasCredentialSubject /\ SertoShape)
    => IF SchemaIdTypes # <<>> /\ Covers(SubjectContext)
       THEN jsonLdTypes =
              Ok(<<[id |-> SchemaId \o SchemaIdTypes[1].key, name |-> SchemaIdTypes[1].key]>>)
       ELSE jsonLdTypes.status # "ok"

\* C14: for a Convention B context the result is the single binding
\* {id: schema-id concatenated with k, name: k}, k the key of the first entry
\* whose value is {"@id": "schema-id"}, if and only if such an entry exists,
\* credentialSubject declares a properties list and every name in it is a
\* key of credentialSubject["@context"]; otherwise resolution fails.
C14_SertoResolution ==
  (Resolved /\ HasCredentialSubject /\ SertoShape)
    => IF SchemaIdTypes # <<>> /\ DeclaresProperties /\ Covers(SubjectContext)
       THEN jsonLdTypes =
              Ok(<<[id |-> SchemaId \o SchemaIdTypes[1].key, name |-> SchemaIdTypes[1].key]>>)
       ELSE jsonLdTypes.status # "ok"

\* a Convention B context resolved to the binding of its type entry
C14_Witness ==
  /\ Resolved /\ HasCredentialSubject /\ SertoShape
  /\ SubjectNames # {}
  /\ jsonLdTypes = Ok(<<[id |-> "https://example/T1", name |-> "T1"]>>)

----------------------------------------------------------------------------
(* C15  Convention B with several type entries *)

\* C15: a Convention B context in which two or more entries of the outer
\* mapping have the value {"@id": "schema-id"} does not resolve to a type
\* binding.
C15_SingleTypeEntry ==
  (Resolved /\ HasCredentialSubject /\ SertoShape /\ Len(SchemaIdTypes) >= 2)
    => jsonLdTypes.status # "ok"

----------------------------------------------------------------------------
(* C16  schemas without credentialSubject *)

HasIssue(kind) ==
  \E i \in 1..Len(jsonLdTypes.issues) : jsonLdTypes.issues[i].kind = kind

\* C16: for an attribute tree without an Object-typed property named
\* credentialSubject, resolution fails with MissingCredentialSubject for
\* every context document, whatever its shape.
C16_MissingCredentialSubject ==
  (Resolved /\ ~HasCredentialSubject)
    => /\ jsonLdTypes.status # "ok"
       /\ HasIssue("MissingCredentialSubject")

----------------------------------------------------------------------------
(* C17  coverage failures *)

CoverageMessage == "Couldn't find Property of the JSON schema in the context"

\* the context has a convention's shape and the coverage check fails: some
\* property name of credentialSubject is missing from the "@context" of every
\* candidate (Convention A) or from credentialSubject["@context"] (Convention B)
CoverageFails ==
  \/ /\ Iden3Shape
     /\ \E i \in 1..Len(Iden3Entries) : Candidate(Iden3Entries[i].val)
     /\ \A i \in 1..Len(Iden3Entries) :
          Candidate(Iden3Entries[i].val) => ~Covers(Field(Iden3Entries[i].val, "@context"))
  \/ SertoShape /\ ~Covers(SubjectContext)

\* C17: when the context has one convention's shape and the coverage check
\* fails, resolution fails with InvalidContext and the error carries the
\* coverage-failure message, for Convention A as for Convention B.
C17_CoverageMessage ==
  (Resolved /\ HasCredentialSubject /\ CoverageFails)
    => /\ jsonLdTypes.status = "fail"
       /\ \E i \in 1..Len(jsonLdTypes.issues) :
            /\ jsonLdTypes.issues[i].kind = "InvalidContext"
            /\ jsonLdTypes.issues[i].message = CoverageMessage

----------------------------------------------------------------------------
(* C18  responses of CreateCredential *)

Responded == pc = "response"

NoProof == ~request.SignatureProof /\ ~request.MtProof

\* C18: every failure becomes a response carrying the error's message
\* unchanged: 400 without a proof type (CreateClaim is not called) and for
\* ErrJSONLdContext, ErrProcessSchema and ErrMalformedURL, 422 for
\* ErrLoadingSchema, 500 for any other error; 201 only when CreateClaim
\* succeeded; the Go error is nil on every path.
C18_CreateCredential ==
  Responded
    => /\ response.err = nil
       /\ NoProof
            => /\ claim = None
               /\ response.object.status = 400
               /\ response.object.Message = "you must to provide at least one proof type"
       /\ (~NoProof /\ claim.err # nil)
            => /\ response.object.Message = Error(claim.err)
               /\ response.object.status =
                    CASE claim.err.is \in {"ErrJSONLdContext", "ErrProcessSchema", "ErrMalformedURL"} -> 400
                      [] claim.err.is = "ErrLoadingSchema" -> 422
                      [] OTHER -> 500
       /\ response.object.status = 201
            => /\ ~NoProof
               /\ claim.err = nil
               /\ response.object.Id = claim.ID

\* a wrapped ErrLoadingSchema answered with 422 and the wrapping message
C18_Witness ==
  /\ Responded
  /\ ~NoProof
  /\ claim.err = [is |-> "ErrLoadingSchema", wrapped |-> TRUE]
  /\ response.object = JSONResponse(422, "create claim: ErrLoadingSchema")

----------------------------------------------------------------------------
(* C21  Object attributes without a properties field *)

\* C21: an Object attribute whose schema has no properties field imposes no
\* property constraints: every object value, with any keys, is accepted.
C21_NoPropertyConstraints ==
  (ObjectCase /\ attribute.data.schema.properties = Undefined) => Accepted

----------------------------------------------------------------------------
(* C22  Array attributes without items *)

ArrayCase == Validated /\ attribute.data.type = "array"

\* C22: an Array attribute that declares no items accepts every array value
\* and the result's value holds the input elements, in order.
C22_ElementsPassThrough ==
  (ArrayCase /\ attribute.data.schema.items = Undefined /\ unknown.k = "array")
    => /\ Accepted
       /\ value.data.value = Nodes(unknown.elems)

----------------------------------------------------------------------------
(* C23  Array attributes with items *)

Items == attribute.data.schema.items

\* the element alone is valid against items, which has the required flag of
\* the array: undefined when the array is not required, else a value of the
\* shape of the type of items
ElementOk(e) ==
  IF e = Undefined THEN ~attribute.data.required
  ELSE IF Items.type \in Primitives THEN NativeShape(Items.type, e)
  ELSE e.k = Items.type

FirstFailing ==
  CHOOSE i \in 1..Len(unknown.elems) :
    /\ ~ElementOk(unknown.elems[i])
    /\ \A j \in 1..(i - 1) : ElementOk(unknown.elems[j])

\* C23: for an Array attribute that declares items the result has one child
\* per input element in input order, validation fails with the error of the
\* first element that fails, an undefined element is accepted exactly when
\* the array is not required, and an undefined array is accepted when
\* required = false.
C23_ElementsInOrder ==
  (ArrayCase /\ Items # Undefined)
    => /\ unknown = Undefined
            => IF attribute.data.required
               THEN Rejected
               ELSE Accepted /\ value.data.value = Undefined
       /\ unknown.k = "array"
            => IF \A i \in 1..Len(unknown.elems) : ElementOk(unknown.elems[i])
               THEN /\ Accepted
                    /\ Len(value.data.value.elems) = Len(unknown.elems)
                    /\ \A i \in 1..Len(unknown.elems) :
                         /\ value.data.value.elems[i].name = "items"
                         /\ value.data.value.elems[i].type = Items.type
                         /\ Items.type \in Primitives
                              => value.data.value.elems[i].value = unknown.elems[i]
               ELSE /\ Rejected
                    /\ Len(value.issues) = 1
                    /\ FirstIssue.kind =
                         IF unknown.elems[FirstFailing] = Undefined
                         THEN "MissingRequired" ELSE "TypeMismatch"

\* an optional array of strings validated with an undefined element first
C23_Witness ==
  /\ ArrayCase /\ Items # Undefined
  /\ ~attribute.data.required
  /\ Items.type = "string"
  /\ unknown = Arr(<<Undefined, Str("a")>>)
  /\ Accepted
  /\ value.data.value.elems[2].value = Str("a")

----------------------------------------------------------------------------
(* C24  shape of the value tree of an Object attribute *)

\* C24: the value produced for an Object attribute has exactly one child per
\* declared property; a declared property whose key is absent from the input
\* yields a child whose value is undefined.
C24_SameShape ==
  (ObjectCase /\ Accepted /\ attribute.data.schema.properties # Undefined)
    => LET props == attribute.data.schema.properties.elems
           children == value.data.value.elems
       IN /\ Len(children) = Len(props)
          /\ \A i \in 1..Len(props) :
               \E j \in 1..Len(children) :
                 /\ children[j].name = props[i].name
                 /\ ~HasKey(unknown, props[i].name) => children[j].value = Undefined

----------------------------------------------------------------------------
(* C25  the property named by a coverage failure *)

\* C25: when Convention B resolution fails because of property coverage, the
\* property named in the message is a property of credentialSubject that is
\* missing from credentialSubject["@context"], never one that is present.
C25_NamedPropertyMissing ==
  (Resolved /\ HasCredentialSubject /\ SertoShape /\ jsonLdTypes.status = "fail")
    => \A i \in 1..Len(jsonLdTypes.issues) :
         jsonLdTypes.issues[i].message = CoverageMessage
           => /\ jsonLdTypes.issues[i].property \in SubjectNames
              /\ ~\E j \in 1..Len(SubjectContext.entries) :
                    SubjectContext.entries[j].key = jsonLdTypes.issues[i].property

----------------------------------------------------------------------------
(* C26  responses of GetSchema *)

SchemaResponded == pc = "schemaResponse"

Answers(status) == response # Panic /\ response.object.status = status

\* C26: GetSchema answers 200 only when GetByID returned without error; it
\* answers 404 for ErrSchemaNotFound, and for any other error it does not
\* answer 200 with a response built from the schema result.
C26_GetSchema ==
  SchemaResponded
    => /\ Answers(200) => byID.err = nil
       /\ byID.err.is = "ErrSchemaNotFound" => Answers(404)
       /\ (byID.err # nil /\ byID.err.is # "ErrSchemaNotFound") => ~Answers(200)

====
